---- MODULE Spec2Model ----
(***************************************************************************)
(* Tamper-evident record keeping of the Smart-Contract-Generation-System:  *)
(*   - the Ledger: a chain of Block objects (src/src/models.js, class      *)
(*     Block) extended by createBlock and checked by isChainValid;         *)
(*   - the Content Store: HistoryStorage (src/src/models.js, lines         *)
(*     703-816) over the browser's localStorage.                           *)
(*                                                                         *)
(* SHA-256 is idealised as collision free: a digest is identified by its   *)
(* preimage (field pre), and its leading hexadecimal characters (field     *)
(* hex, two characters instead of 64) are a fixed function of the          *)
(* preimage, so that the proof-of-work prefix test is a real computation.  *)
(***************************************************************************)
EXTENDS Integers, Sequences, FiniteSets, TLC

\* ------------------------------------------------------------------ bounds
MaxChain == 3          \* longest chain explored (genesis + 2 blocks)
MaxTime == 1           \* timestamps are drawn from 0..MaxTime
MaxDifficulty == 1     \* difficulties passed to mineBlock: 0..MaxDifficulty
maxNonce == 8          \* CONFIG.blockchain.mining.maxNonce, scaled down
NonceCap == 300        \* the model stops following a search at this nonce
IndexCap == 2          \* the cap of the Index (500 in the program), scaled down
MaxId == 3             \* record ids are drawn from 1..MaxId
MaxScalar == 2         \* the numbers a payload holds: 1..MaxScalar

\* --------------------------------------------------------- program constants
DefaultDifficulty == 4 \* data.difficulty || 4
HexBase == 16          \* digests are printed in hexadecimal
MaxTxs == 1            \* transactions pushed onto one Block after creation
MaxDelays == 3         \* waits of about a lockoutDuration in a behaviour
maxLogBuffer == 3      \* this.maxLogBuffer, 1000 in the program
MaxEntries == 4        \* log entries passed to addToLogBuffer
MaxFlushes == 2        \* fs.appendFile calls pending at once

Times == 0..MaxTime
Difficulties == 0..MaxDifficulty
\* the transactions a caller may hand to createBlock
TxPool == {[from |-> "alice", to |-> "bob", amount |-> 1]}
TxLists == {<<>>} \cup {<<t>> : t \in TxPool}

\* ------------------------------------------------------------------- state
VARIABLES
    chain,      \* Blockchain.chain: the sequence of Blocks, chain[1] is genesis
    cand,       \* the candidate Block createBlock is mining
    lpc,        \* position of createBlock: "idle", "mining"
    mdiff,      \* the difficulty argument of the running mineBlock
    created,    \* outcome of the last createBlock: "none", "ok", "threw"
    returned,   \* the Block the last successful createBlock returned
    validity,   \* result of the last isChainValid call
    tampered    \* the out-of-band write done, if any: <<index, field>>

lvars == <<chain, cand, lpc, mdiff, created, returned, validity, tampered>>

VARIABLES
    records,    \* localStorage['contractRecord:' + id], NoRecord when absent
    idxEntry,   \* localStorage['contractRecord:index']
    calls,      \* the save calls in flight, suspended in await sha256Hex
    lastSave,   \* what the save that completed last gave its caller
    srecords,   \* the Records of a store on which every save runs alone
    sidxEntry   \* the Index entry of that store

svars == <<records, idxEntry, calls, lastSave, srecords, sidxEntry>>

VARIABLES
    txdata,     \* the data objects of two Transactions, keys in insertion order
    txhash      \* what calculateHash returned for each, NoDigest before a call

dvars == <<txdata, txhash>>

VARIABLES
    loaded,     \* what the last loadAll() gave its caller
    rebuilt     \* what the last rebuildPdf(record) gave its caller

rvars == <<loaded, rebuilt>>

VARIABLES
    storageType,  \* DataStore.storageType
    lsItems,      \* localStorage as the DataStore sees it: key -> string
    cache,        \* DataStore.cache: key -> string
    saved,        \* what was saved under each (collection, id) and not deleted
    kret          \* the last DataStore call and what it returned

kvars == <<storageType, lsItems, cache, saved, kret>>

VARIABLES
    suspiciousActivities,  \* SecurityManager.suspiciousActivities
    clock,                 \* Date.now()
    bfret                  \* the last SecurityManager call and its outcome

bvars == <<suspiciousActivities, clock, bfret>>

VARIABLES
    logBuffer,  \* MonitoringSystem.logBuffer
    logFile,    \* the entries appended to the log file, in order
    flushes,    \* the flushLogBuffer calls suspended in await fs.appendFile
    logged      \* how many entries were passed to addToLogBuffer

mvars == <<logBuffer, logFile, flushes, logged>>

\* the state of the components other than the Ledger, the Content Store
\* and the digests
ovars == <<rvars, kvars, bvars, mvars>>

vars == <<lvars, svars, dvars, ovars>>

\* ----------------------------------------------------------------- digests
\* previousHash of the genesis block: data.previousHash || '0'
Sentinel == [hex |-> <<0>>, pre |-> <<>>]
\* this.hash = data.hash || ''
EmptyHash == [hex |-> <<>>, pre |-> <<>>]

\* numeric value of the hexadecimal characters of a digest
HexVal(h) ==
    IF Len(h.hex) = 0 THEN 0
    ELSE IF Len(h.hex) = 1 THEN h.hex[1]
    ELSE h.hex[1] + HexBase * h.hex[2]

\* CryptoJS.SHA256(JSON.stringify(data)).toString() for the data object of
\* Block.calculateHash: injective in the five hashed fields
Sha256(index, timestamp, previousHash, txs, nonce) ==
    LET v == (11 + 7 * index + 13 * timestamp + 3 * HexVal(previousHash)
                 + 5 * nonce) % (HexBase * HexBase)
    IN [hex |-> <<v % HexBase, v \div HexBase>>,
        pre |-> <<index, timestamp, previousHash, txs, nonce>>]

\* BaseModel.toJSON: JSON.parse(JSON.stringify(this)).  JSON.stringify calls
\* the toJSON method of the value it is given, which is this very method, so
\* the call never returns a value: it recurses until the engine throws
\* RangeError (maximum call stack size exceeded).
RangeError == "RangeError"
toJSON(tx) == RangeError

\* Block.calculateHash throws when mapping a transaction through toJSON throws
calculateHashThrows(b) ==
    \E i \in 1..Len(b.transactions) : toJSON(b.transactions[i]) = RangeError

\* Block.calculateHash, when it returns
calculateHash(b) ==
    Sha256(b.index, b.timestamp, b.previousHash,
           [i \in 1..Len(b.transactions) |-> toJSON(b.transactions[i])],
           b.nonce)
\* --------------------------------------------------------- payload digests
\* A JavaScript value of a payload: a number or an object.  An object keeps
\* its own string keys in insertion order, which is the order JSON.stringify
\* writes them in
Keys == {"a", "b"}
Scalars == 1..MaxScalar
Num(n) == [kind |-> "num", num |-> n, entries |-> <<>>]
Obj(entries) == [kind |-> "obj", num |-> 0, entries |-> entries]

\* the keys of an object and the value stored under one of them
KeysOf(obj) == {obj.entries[k].key : k \in 1..Len(obj.entries)}
Get(obj, key) ==
    obj.entries[CHOOSE k \in 1..Len(obj.entries) : obj.entries[k].key = key].value

\* obj[key] = value: an existing key keeps its place, a new one goes last
setKey(obj, key, value) ==
    IF key \in KeysOf(obj)
    THEN Obj([k \in 1..Len(obj.entries) |->
                 IF obj.entries[k].key = key
                 THEN [key |-> key, value |-> value] ELSE obj.entries[k]])
    ELSE Obj(Append(obj.entries, [key |-> key, value |-> value]))

\* the object literals over Keys whose values are in vals, in every order
\* of writing them
ObjectsOver(vals) ==
    UNION {{Obj(es) : es \in {f \in [1..n -> [key : Keys, value : vals]] :
                                 \A i, j \in 1..n : i # j => f[i].key # f[j].key}} :
           n \in 0..Cardinality(Keys)}

\* what a caller may store under a key of Transaction.data
DataValues == {Num(n) : n \in Scalars} \cup ObjectsOver({Num(1)})

\* JSON.stringify(value), as the sequence of its tokens
RECURSIVE stringify(_), stringifyEntries(_, _)
stringifyEntries(entries, k) ==
    IF k > Len(entries) THEN <<>>
    ELSE (IF k > 1 THEN <<",">> ELSE <<>>)
         \o <<entries[k].key, ":">> \o stringify(entries[k].value)
         \o stringifyEntries(entries, k + 1)

stringify(v) ==
    IF v.kind = "num" THEN <<ToString(v.num)>>
    ELSE <<"{">> \o stringifyEntries(v.entries, 1) \o <<"}">>

\* CryptoJS.SHA256(string).toString(): collision free, so identified by the
\* string digested
NoDigest == <<>>
Sha256OfString(str) == <<"sha256", str>>

\* the fields of a Transaction other than data; the two Transactions compared
\* agree on them
TxFixed == [type |-> "transfer", from |-> "alice", to |-> "bob", amount |-> 1,
            fee |-> 0, createdAt |-> "t0"]

\* Transaction.calculateHash: JSON.stringify of the literal { type, from, to,
\* amount, fee, data, timestamp } and SHA256 of the string
TransactionCalculateHash(data) ==
    Sha256OfString(<<"{", "type", ":", TxFixed.type, ",", "from", ":",
                     TxFixed.from, ",", "to", ":", TxFixed.to, ",",
                     "amount", ":", ToString(TxFixed.amount), ",",
                     "fee", ":", ToString(TxFixed.fee), ",", "data", ":">>
                   \o stringify(data)
                   \o <<",", "timestamp", ":", TxFixed.createdAt, "}">>)

\* two values hold the same keys with the same values at every level
RECURSIVE SameStructure(_, _)
SameStructure(p, q) ==
    /\ p.kind = q.kind
    /\ p.kind = "num" => p.num = q.num
    /\ p.kind = "obj" =>
          /\ KeysOf(p) = KeysOf(q)
          /\ \A key \in KeysOf(p) : SameStructure(Get(p, key), Get(q, key))
\* ------------------------------------------------------------------- Block
\* mutant of BlockData: the search starts at nonce 1
BlockDataFromOne(index, timestamp, previousHash, txs) ==
    [index |-> index, timestamp |-> timestamp, previousHash |-> previousHash,
     hash |-> EmptyHash, nonce |-> 1, difficulty |-> 0, transactions |-> txs]

\* what a createBlock or a test hands to new Block(data)
BlockData(index, timestamp, previousHash, txs) ==
    [index |-> index, timestamp |-> timestamp, previousHash |-> previousHash,
     hash |-> EmptyHash, nonce |-> 0, difficulty |-> 0, transactions |-> txs]

\* mutant of BlockFields: previousHash is taken as given, without || '0'
BlockFieldsAsGiven(data) ==
    [index |-> data.index,
     timestamp |-> data.timestamp,
     previousHash |-> data.previousHash,
     hash |-> data.hash,
     nonce |-> data.nonce,
     difficulty |-> IF data.difficulty = 0 THEN DefaultDifficulty
                    ELSE data.difficulty,
     transactions |-> data.transactions]

\* the fields the constructor sets before it looks at the hash
BlockFields(data) ==
    [index |-> data.index,
     timestamp |-> data.timestamp,
     previousHash |-> IF data.previousHash = EmptyHash THEN Sentinel
                      ELSE data.previousHash,
     hash |-> data.hash,
     nonce |-> data.nonce,
     difficulty |-> IF data.difficulty = 0 THEN DefaultDifficulty
                    ELSE data.difficulty,
     transactions |-> data.transactions]

\* new Block(data) throws when it has to compute the hash and that throws
BlockThrows(data) ==
    BlockFields(data).hash = EmptyHash /\ calculateHashThrows(BlockFields(data))

\* new Block(data): if (!this.hash) this.hash = this.calculateHash()
Block(data) ==
    LET b == BlockFields(data)
    IN IF b.hash = EmptyHash THEN [b EXCEPT !.hash = calculateHash(b)] ELSE b

NoBlock ==
    [index |-> -1, timestamp |-> 0, previousHash |-> EmptyHash,
     hash |-> EmptyHash, nonce |-> 0, difficulty |-> 0, transactions |-> <<>>]

\* Array(difficulty + 1).join('0')
Target(difficulty) == [i \in 1..difficulty |-> 0]

\* String.prototype.substring(0, n)
Substring0(str, n) == SubSeq(str, 1, IF n < Len(str) THEN n ELSE Len(str))

\* mutant of mineDone: the prefix compared is one character short
mineDoneShort(b, difficulty) ==
    \/ difficulty = 0
    \/ Substring0(b.hash.hex, difficulty - 1) = Target(difficulty - 1)

\* the test of the while loop of mineBlock, negated: the loop is left
mineDone(b, difficulty) ==
    Substring0(b.hash.hex, difficulty) = Target(difficulty)

\* mutant of mineIter: the hash is recomputed before the nonce is incremented
mineIterStale(b) ==
    [b EXCEPT !.nonce = b.nonce + 1, !.hash = calculateHash(b)]

\* one pass through the body of the while loop of mineBlock
mineIter(b) ==
    LET n == [b EXCEPT !.nonce = b.nonce + 1]
    IN [n EXCEPT !.hash = calculateHash(n)]

\* ------------------------------------------------------------ isChainValid
\* -1 when every block passes
NoIndex == -1
NoVerdict == [called |-> FALSE, valid |-> FALSE, firstInvalid |-> NoIndex,
              threw |-> FALSE]

\* Block.validate, when calculateHash returns: the stored hash is not the
\* recomputed one.  The transactions of a block that can be hashed are none,
\* so the loop over them adds no error
hashInvalid(b) == b.hash # calculateHash(b)

\* the block at position i (0-based, as in the program) fails validation:
\* its hash is invalid or its previousHash is not the hash stored before it
BlockInvalid(c, i) ==
    \/ hashInvalid(c[i + 1])
    \/ i > 0 /\ c[i + 1].previousHash # c[i].hash

\* the first position at which recomputation throws or validation fails
FirstBad(c) ==
    LET bad == {i \in 0..(Len(c) - 1) :
                   calculateHashThrows(c[i + 1]) \/ BlockInvalid(c, i)}
    IN IF bad = {} THEN NoIndex
       ELSE CHOOSE i \in bad : \A j \in bad : i <= j

isChainValid(c) ==
    LET i == FirstBad(c)
    IN IF i = NoIndex
       THEN [called |-> TRUE, valid |-> TRUE, firstInvalid |-> NoIndex,
             threw |-> FALSE]
       ELSE IF calculateHashThrows(c[i + 1])
       THEN [called |-> TRUE, valid |-> FALSE, firstInvalid |-> NoIndex,
             threw |-> TRUE]
       ELSE [called |-> TRUE, valid |-> FALSE, firstInvalid |-> i,
             threw |-> FALSE]
\* ---------------------------------------------------------- Ledger actions
\* new Blockchain(): the chain holds the genesis block only; localStorage
\* is empty and stays so
LedgerInit ==
    /\ \E now \in Times : chain = <<Block(BlockData(0, now, EmptyHash, <<>>))>>
    /\ cand = NoBlock
    /\ lpc = "idle"
    /\ mdiff = 0
    /\ created = "none"
    /\ returned = NoBlock
    /\ validity = NoVerdict
    /\ tampered = <<>>
    /\ records = <<>>
    /\ idxEntry = [present |-> FALSE, parses |-> TRUE, ids |-> <<>>]
    /\ calls = <<>>
    /\ lastSave = [kind |-> "none", id |-> 0, overlapped |-> FALSE]
    /\ srecords = <<>>
    /\ sidxEntry = [present |-> FALSE, parses |-> TRUE, ids |-> <<>>]
    /\ txdata = <<>>
    /\ txhash = <<>>
    /\ loaded = <<>>
    /\ rebuilt = <<>>
    /\ storageType = ""
    /\ lsItems = <<>>
    /\ cache = <<>>
    /\ saved = <<>>
    /\ kret = <<>>
    /\ suspiciousActivities = <<>>
    /\ clock = 0
    /\ bfret = <<>>
    /\ logBuffer = <<>>
    /\ logFile = <<>>
    /\ flushes = <<>>
    /\ logged = 0

\* createBlock(transactions), up to the call of mineBlock: the candidate is
\* built with index = chain.length, previousHash = chain.last.hash, nonce = 0.
\* Blocks are created before the out-of-band write, which is followed by
\* validation only
createBlockBegin(txs, now, difficulty) ==
    /\ lpc = "idle"
    /\ tampered = <<>>
    /\ Len(chain) < MaxChain
    /\ LET data == BlockData(Len(chain), now, chain[Len(chain)].hash, txs)
       IN IF BlockThrows(data)
          THEN /\ created' = "threw"
               /\ UNCHANGED <<cand, lpc, mdiff>>
          ELSE /\ cand' = Block(data)
               /\ lpc' = "mining"
               /\ mdiff' = difficulty
               /\ created' = "none"
    /\ returned' = NoBlock
    /\ validity' = NoVerdict
    /\ UNCHANGED <<chain, tampered, svars, dvars, ovars>>

\* mineBlock: the loop test fails, the body runs once more
mineStep ==
    /\ lpc = "mining"
    /\ ~mineDone(cand, mdiff)
    /\ cand.nonce < NonceCap
    /\ cand' = mineIter(cand)
    /\ UNCHANGED <<chain, lpc, mdiff, created, returned, validity, tampered,
                   svars, dvars, ovars>>

\* mutant of createBlockEnd: the block is put at the head of the chain
createBlockEndAtHead ==
    /\ lpc = "mining"
    /\ mineDone(cand, mdiff)
    /\ LET b == [cand EXCEPT !.difficulty = mdiff]
       IN /\ chain' = <<b>> \o chain
          /\ returned' = b
    /\ created' = "ok"
    /\ lpc' = "idle"
    /\ cand' = NoBlock
    /\ UNCHANGED <<mdiff, validity, tampered, svars, dvars, ovars>>

\* mineBlock leaves the loop and sets this.difficulty; createBlock appends
\* the block to the chain and returns it
createBlockEnd ==
    /\ lpc = "mining"
    /\ mineDone(cand, mdiff)
    /\ LET b == [cand EXCEPT !.difficulty = mdiff]
       IN /\ chain' = Append(chain, b)
          /\ returned' = b
    /\ created' = "ok"
    /\ lpc' = "idle"
    /\ cand' = NoBlock
    /\ UNCHANGED <<mdiff, validity, tampered, svars, dvars, ovars>>

\* isChainValid()
isChainValidCall ==
    /\ lpc = "idle"
    /\ validity' = isChainValid(chain)
    /\ UNCHANGED <<chain, cand, lpc, mdiff, created, returned, tampered, svars,
                   dvars, ovars>>

\* the stored fields of a Block
BlockFieldNames ==
    {"index", "timestamp", "previousHash", "hash", "nonce", "difficulty",
     "transactions"}

\* the values an out-of-band write may put into a field of block b
TamperValues(b, field) ==
    CASE field = "index" -> 0..MaxChain
      [] field = "timestamp" -> 0..(MaxTime + 1)
      [] field = "nonce" -> {0, b.nonce + 1}
      [] field = "difficulty" -> Difficulties \cup {DefaultDifficulty}
      [] field = "transactions" -> TxLists
      [] OTHER -> {Sentinel,
                   Sha256(b.index, b.timestamp, b.previousHash, <<>>, b.nonce),
                   Sha256(b.index, b.timestamp, b.previousHash, <<>>,
                          b.nonce + 1)}
                  \cup {chain[j].hash : j \in 1..Len(chain)}

\* an out-of-band write, as in the tests: blockchain.chain[i].field = value;
\* one such write is followed per behaviour
tamper(i, field, value) ==
    /\ lpc = "idle"
    /\ tampered = <<>>
    /\ i \in 0..(Len(chain) - 1)
    /\ value \in TamperValues(chain[i + 1], field)
    /\ chain[i + 1][field] # value
    /\ chain' = [chain EXCEPT ![i + 1][field] = value]
    /\ tampered' = Append(tampered, <<i, field>>)
    /\ validity' = NoVerdict
    /\ UNCHANGED <<cand, lpc, mdiff, created, returned, svars, dvars, ovars>>

\* a second out-of-band write to the block already written to, into another
\* of its fields: the stored hash can follow a change of the content
tamperAgain(field, value) ==
    /\ lpc = "idle"
    /\ Len(tampered) = 1
    /\ field # tampered[1][2]
    /\ LET i == tampered[1][1]
       IN /\ value \in TamperValues(chain[i + 1], field)
          /\ chain[i + 1][field] # value
          /\ chain' = [chain EXCEPT ![i + 1][field] = value]
          /\ tampered' = Append(tampered, <<i, field>>)
    /\ validity' = NoVerdict
    /\ UNCHANGED <<cand, lpc, mdiff, created, returned, svars, dvars, ovars>>

LedgerNext ==
    \/ \E txs \in TxLists, now \in Times, d \in Difficulties :
          createBlockBegin(txs, now, d)
    \/ mineStep
    \/ createBlockEnd
    \/ isChainValidCall
    \/ \E i \in 0..(MaxChain - 1), f \in BlockFieldNames :
          \E v \in TamperValues(chain[IF i < Len(chain) THEN i + 1 ELSE 1], f) :
             tamper(i, f, v)

\* the transactions a caller may hand to Block.addTransaction
TxInputs == TxPool \cup {[from |-> "", to |-> "bob", amount |-> 1]}

\* Transaction.validate().valid: from and to are not empty, amount and the
\* fee (0 when none is given) are not negative
TransactionValid(tx) == tx.from # "" /\ tx.to # "" /\ tx.amount >= 0

\* chain[i].addTransaction(tx) on a Block of the chain: an invalid transaction
\* throws, a valid one is pushed onto the Block's transactions; neither
\* the stored hash nor anything else of the Block is looked at
addTransaction(i, tx) ==
    /\ lpc = "idle"
    /\ i \in 0..(Len(chain) - 1)
    /\ Len(chain[i + 1].transactions) < MaxTxs
    /\ chain' = IF TransactionValid(tx)
                THEN [chain EXCEPT ![i + 1].transactions = Append(@, tx)]
                ELSE chain
    /\ UNCHANGED <<cand, lpc, mdiff, created, returned, validity, tampered,
                   svars, dvars, ovars>>

\* the Ledger whose Blocks are also handed transactions after their creation
LedgerAddNext ==
    \/ LedgerNext
    \/ \E i \in 0..(MaxChain - 1), tx \in TxInputs : addTransaction(i, tx)

\* the Ledger when the out-of-band writer may write two fields of a block
LedgerTamperNext ==
    \/ LedgerNext
    \/ \E f \in BlockFieldNames :
          \E v \in TamperValues(chain[IF tampered # <<>> THEN tampered[1][1] + 1
                                      ELSE 1], f) :
             tamperAgain(f, v)

\* ------------------------------------------------------------ Ledger claims
\* a string of hexadecimal characters starts with d zero characters
StartsWithZeros(hex, d) == Len(hex) >= d /\ \A i \in 1..d : hex[i] = 0

\* C1 (as claimed): once a single stored field of chain[1] has been changed,
\* isChainValid() returns false and reports index 1, whatever the field
C1_AnyFieldTamperDetected ==
    (Len(tampered) = 1 /\ tampered[1][1] = 1 /\ validity.called)
        => (~validity.threw /\ ~validity.valid /\ validity.firstInvalid = 1)

\* C2: while nothing was written out of band, every block's stored hash is
\* the digest of its (index, timestamp, previousHash, transactions, nonce),
\* every non-genesis block's previousHash is the stored hash of the block
\* before it, and isChainValid() returns true
C2_ChainValidAfterCreate ==
    tampered = <<>> =>
        /\ \A k \in 1..Len(chain) :
              /\ ~calculateHashThrows(chain[k])
              /\ chain[k].hash = Sha256(chain[k].index, chain[k].timestamp,
                                        chain[k].previousHash, <<>>,
                                        chain[k].nonce)
              /\ k > 1 => chain[k].previousHash = chain[k - 1].hash
        /\ chain[1].index = 0 /\ chain[1].previousHash = Sentinel
        /\ validity.called => (validity.valid /\ ~validity.threw)

C2_Witness ==
    /\ tampered = <<>>
    /\ Len(chain) = 3
    /\ chain[2].nonce > 0
    /\ validity.called /\ validity.valid

\* C3: a block returned by createBlock after mining with difficulty d has a
\* stored hash whose hexadecimal form starts with d zero characters
C3_MinedHashHasPrefix ==
    created = "ok" =>
        /\ StartsWithZeros(returned.hash.hex, mdiff)
        /\ returned.difficulty = mdiff
        /\ chain[Len(chain)] = returned \/ tampered # <<>>

C3_Witness ==
    /\ created = "ok"
    /\ mdiff >= 1
    /\ returned.nonce > 0
    /\ returned.hash.hex[1] = 0

\* C4 (as claimed): the search stops once the nonce exceeds maxNonce: it
\* never goes on past maxNonce + 1 and no block found beyond it is appended
C4_SearchStopsAtMaxNonce ==
    /\ lpc = "mining" => cand.nonce <= maxNonce + 1
    /\ created = "ok" => returned.nonce <= maxNonce + 1
\* C14: a createBlock that returns appends exactly the returned block at the
\* tail, with index the length of the chain before the call and previousHash
\* the stored hash of the tail before the call, and leaves the earlier blocks
\* as they were; the chain changes in no other way (a createBlock that
\* throws leaves it alone) unless written out of band, so that before any
\* such write the block at position i has index i
C14_CreateBlockExtendsTail ==
    [][/\ (lpc = "mining" /\ lpc' = "idle")
             => /\ created' = "ok"
                /\ chain' = Append(chain, returned')
                /\ returned'.index = Len(chain)
                /\ returned'.previousHash = chain[Len(chain)].hash
       /\ (chain' # chain /\ tampered' = tampered)
             => (lpc = "mining" /\ lpc' = "idle")
       /\ tampered = <<>> => \A k \in 1..Len(chain) : chain[k].index = k - 1
       /\ tampered' = <<>>
             => \A k \in 1..Len(chain') : chain'[k].index = k - 1]_vars

\* the second createBlock has just returned the block of index 2
C14_Witness ==
    /\ created = "ok"
    /\ lpc = "idle"
    /\ tampered = <<>>
    /\ Len(chain) = 3
    /\ returned = chain[3]
    /\ returned.index = 2
    /\ returned.previousHash = chain[2].hash

\* no createBlock was called on the ledger and nothing was written to it
Fresh == created = "none" /\ lpc = "idle" /\ tampered = <<>>

\* C15: a ledger on which nothing was done since its construction has a
\* chain of length 1, whose block has index 0 and the sentinel '0' as
\* previousHash
C15_FreshLedgerIsGenesis ==
    Fresh => /\ Len(chain) = 1
             /\ chain[1].index = 0
             /\ chain[1].previousHash = Sentinel

\* a fresh ledger, validated
C15_Witness ==
    /\ Fresh
    /\ Len(chain) = 1
    /\ chain[1].timestamp = MaxTime
    /\ validity.called

\* C16 (as claimed): once one or several stored fields of a block of the
\* chain, at any position, were changed out of band, isChainValid() returns
\* false
C16_AnyMutationDetected ==
    (tampered # <<>> /\ validity.called)
        => (~validity.valid /\ ~validity.threw)

\* ------------------------------------------------------------ Digest claims
\* C11 (as claimed): two payloads holding the same keys with the same values
\* at every nesting level have the same digest, whatever the order in which
\* their keys were inserted
C11_DigestIgnoresKeyOrder ==
    (/\ txhash[1] # NoDigest
     /\ txhash[2] # NoDigest
     /\ SameStructure(txdata[1], txdata[2]))
        => txhash[1] = txhash[2]
\* ----------------------------------------------------- Content Store: data
Ids == 1..MaxId
\* the call sites of save and the template each of them passes in meta
Callers == {"form", "retry"}
TemplateOf(c) == IF c = "form" THEN "lease" ELSE "loan"

\* the blobs handed to save: absent, an ArrayBuffer (the view is the whole
\* buffer) or a Uint8Array viewing len bytes at offset off of its buffer.
\* One ArrayBuffer has no bytes; another holds the bytes of the view
NoBlob == [kind |-> "none", buf |-> <<>>, off |-> 0, len |-> 0]
Blobs ==
    {NoBlob,
     [kind |-> "buffer", buf |-> <<>>, off |-> 0, len |-> 0],
     [kind |-> "buffer", buf |-> <<2>>, off |-> 0, len |-> 1],
     [kind |-> "view", buf |-> <<1, 2>>, off |-> 1, len |-> 1]}

\* the bytes of the blob: new Uint8Array(arrayBuffer)
BlobBytes(blob) == SubSeq(blob.buf, blob.off + 1, blob.off + blob.len)

\* sha256Hex(buffer): ab = buffer instanceof ArrayBuffer ? buffer
\* : buffer.buffer, so a view is digested through its whole buffer
sha256Hex(blob) == <<"sha256", blob.buf>>

\* the character '=' that pads a base64 string, after the 64 digits 0..63
Base64Pad == 64

\* btoa(binary), binary the string whose character codes are the bytes: each
\* group of three bytes gives four base64 digits, a last group of one or two
\* bytes is padded
RECURSIVE btoaFrom(_, _)
btoaFrom(bytes, i) ==
    IF i > Len(bytes) THEN <<>>
    ELSE LET b1 == bytes[i]
             b2 == IF i + 1 <= Len(bytes) THEN bytes[i + 1] ELSE 0
             b3 == IF i + 2 <= Len(bytes) THEN bytes[i + 2] ELSE 0
         IN <<b1 \div 4,
              (b1 % 4) * 16 + b2 \div 16,
              IF i + 1 <= Len(bytes) THEN (b2 % 16) * 4 + b3 \div 64
              ELSE Base64Pad,
              IF i + 2 <= Len(bytes) THEN b3 % 64 ELSE Base64Pad>>
            \o btoaFrom(bytes, i + 3)

btoa(bytes) == btoaFrom(bytes, 1)

\* atob(string): the bytes behind each group of four base64 digits
RECURSIVE atobFrom(_, _)
atobFrom(str, i) ==
    IF i + 3 > Len(str) THEN <<>>
    ELSE <<str[i] * 4 + str[i + 1] \div 16>>
         \o (IF str[i + 2] = Base64Pad THEN <<>>
             ELSE <<(str[i + 1] % 16) * 16 + str[i + 2] \div 4>>)
         \o (IF str[i + 3] = Base64Pad THEN <<>>
             ELSE <<(str[i + 2] % 4) * 64 + str[i + 3]>>)
         \o atobFrom(str, i + 4)

atob(str) == atobFrom(str, 1)

NoRecord == [id |-> 0, template |-> "", size |-> 0, sha256 |-> <<>>,
             pdfBase64 |-> <<>>]

\* the record object save builds
Record(id, template, blob) ==
    [id |-> id, template |-> template, size |-> blob.len,
     sha256 |-> sha256Hex(blob), pdfBase64 |-> btoa(BlobBytes(blob))]

\* a stored string that JSON.parse rejects, under the key of a Record
CorruptRecord == [id |-> -1, template |-> "", size |-> 0, sha256 |-> <<>>,
                  pdfBase64 |-> <<>>]

\* localStorage['contractRecord:index']: absent, a JSON array of ids, or
\* (parses FALSE) a string that JSON.parse rejects
NoEntry == [present |-> FALSE, parses |-> TRUE, ids |-> <<>>]
CorruptEntry == [present |-> TRUE, parses |-> FALSE, ids |-> <<>>]

\* rebuildPdf(record): a Blob of the decoded bytes if (record.pdfBase64),
\* which the empty string fails as null does; else null
NoPdf == [kind |-> "null", bytes |-> <<>>]
rebuildPdf(record) ==
    IF record.pdfBase64 # <<>>
    THEN [kind |-> "blob", bytes |-> atob(record.pdfBase64)]
    ELSE NoPdf

\* the ids of a sequence
Range(seq) == {seq[k] : k \in 1..Len(seq)}

\* readIndex(): JSON.parse(localStorage.getItem(INDEX_KEY) || '[]'), and []
\* when the parse throws
readIndex(entry) == IF entry.present /\ entry.parses THEN entry.ids ELSE <<>>

\* writeIndex(arr)
writeIndex(arr) == [present |-> TRUE, parses |-> TRUE, ids |-> arr]

\* mutant of Unshift: the id goes to the end of the Index
UnshiftLast(index, id) == Append(index, id)

\* index.unshift(id)
Unshift(index, id) == <<id>> \o index

\* loadAll(): the Records of the ids of the Index, in the order of the
\* Index, an id without a stored Record giving nothing
RECURSIVE loadFrom(_, _, _)
loadFrom(recs, ids, k) ==
    IF k > Len(ids) THEN <<>>
    ELSE (IF recs[ids[k]] # NoRecord THEN <<recs[ids[k]]>> ELSE <<>>)
         \o loadFrom(recs, ids, k + 1)

loadAll(recs, entry) == loadFrom(recs, readIndex(entry), 1)

\* the JSON.parse of loadAll throws on the first id of the Index whose
\* stored string does not parse; nothing catches it
loadAllThrows(recs, entry) ==
    \E k \in 1..Len(readIndex(entry)) : recs[readIndex(entry)[k]] = CorruptRecord

\* what a loadAll() call gives its caller
NoRead == [kind |-> "none", recs |-> <<>>]
loadAllResult(recs, entry) ==
    IF loadAllThrows(recs, entry) THEN [kind |-> "threw", recs |-> <<>>]
    ELSE [kind |-> "ok", recs |-> loadAll(recs, entry)]

\* mutant of Truncate: the Index is never cut
TruncateNever(index) == index

\* if (index.length > 500) index.length = 500
Truncate(index) ==
    IF Len(index) > IndexCap THEN SubSeq(index, 1, IndexCap) ELSE index

\* the dedup scan of save: the positions of the Index whose Record is
\* persisted and carries the digest
DedupHits(recs, index, hash) ==
    {k \in 1..Len(index) :
        recs[index[k]] # NoRecord /\ recs[index[k]].sha256 = hash}

\* the dedup scan parses every stored string it passes: it throws when it
\* meets one that does not parse before it has found the digest
ScanThrows(recs, index, hash) ==
    \E k \in 1..Len(index) :
        /\ recs[index[k]] = CorruptRecord
        /\ \A j \in DedupHits(recs, index, hash) : k < j

NoSave == [kind |-> "none", id |-> 0, overlapped |-> FALSE]

\* save(meta, arrayBuffer) from the point where await sha256Hex returns, on a
\* store holding Records recs and the Index index; fail names the
\* localStorage.setItem that throws: "none", "record" or "index"
saveAfterDigest(recs, entry, index, id, template, blob, fail) ==
    LET hits == DedupHits(recs, index, sha256Hex(blob))
        first == CHOOSE k \in hits : \A j \in hits : k <= j
    IN IF ScanThrows(recs, index, sha256Hex(blob))
       THEN [records |-> recs, idxEntry |-> entry,
             result |-> [kind |-> "threw", id |-> 0]]
       ELSE IF hits # {}
       THEN [records |-> recs, idxEntry |-> entry,
             result |-> [kind |-> "dedup", id |-> recs[index[first]].id]]
       ELSE IF fail = "record"
       THEN [records |-> recs, idxEntry |-> entry,
             result |-> [kind |-> "rejected", id |-> 0]]
       ELSE IF fail = "index"
       THEN [records |-> [recs EXCEPT ![id] = Record(id, template, blob)],
             idxEntry |-> entry,
             result |-> [kind |-> "rejected", id |-> 0]]
       ELSE [records |-> [recs EXCEPT ![id] = Record(id, template, blob)],
             idxEntry |-> writeIndex(Truncate(Unshift(index, id))),
             result |-> [kind |-> "saved", id |-> id]]
\* -------------------------------------------------- Content Store: actions
Idle == [pc |-> "idle", template |-> "", blob |-> NoBlob,
         overlapped |-> FALSE]

\* an empty localStorage, no save in flight; no Blockchain is constructed
StoreInit ==
    /\ records = [i \in Ids |-> NoRecord]
    /\ idxEntry = NoEntry
    /\ calls = [c \in Callers |-> Idle]
    /\ lastSave = NoSave
    /\ srecords = [i \in Ids |-> NoRecord]
    /\ sidxEntry = NoEntry
    /\ chain = <<>>
    /\ cand = NoBlock
    /\ lpc = "idle"
    /\ mdiff = 0
    /\ created = "none"
    /\ returned = NoBlock
    /\ validity = NoVerdict
    /\ tampered = <<>>
    /\ txdata = <<>>
    /\ txhash = <<>>
    /\ loaded = NoRead
    /\ rebuilt = NoPdf
    /\ storageType = ""
    /\ lsItems = <<>>
    /\ cache = <<>>
    /\ saved = <<>>
    /\ kret = <<>>
    /\ suspiciousActivities = <<>>
    /\ clock = 0
    /\ bfret = <<>>
    /\ logBuffer = <<>>
    /\ logFile = <<>>
    /\ flushes = <<>>
    /\ logged = 0

InFlight == {c \in Callers : calls[c].pc = "digesting"}

\* save(meta, arrayBuffer) up to await sha256Hex(arrayBuffer): the blob test.
\* overlapped records that another save is in flight while this one is
saveCall(c, blob) ==
    /\ calls[c].pc = "idle"
    /\ IF blob.kind = "none"
       THEN /\ lastSave' = [kind |-> "null", id |-> 0, overlapped |-> FALSE]
            /\ UNCHANGED calls
       ELSE /\ calls' = [d \in Callers |->
                          IF d = c
                          THEN [pc |-> "digesting", template |-> TemplateOf(c),
                                blob |-> blob,
                                overlapped |-> InFlight # {}]
                          ELSE IF calls[d].pc = "digesting"
                          THEN [calls[d] EXCEPT !.overlapped = TRUE]
                          ELSE calls[d]]
            /\ UNCHANGED lastSave
    /\ UNCHANGED <<records, idxEntry, srecords, sidxEntry, lvars, dvars, ovars>>

\* mutant of indexOnResume: a save that overlapped another does not see
\* what the Index holds when it resumes
indexBeforeSuspend(c) ==
    IF calls[c].overlapped THEN <<>> ELSE readIndex(idxEntry)

\* const index = readIndex(), which save runs after the await
indexOnResume(c) == readIndex(idxEntry)

\* no Record and no Index names the id
Free(id) ==
    /\ records[id] = NoRecord /\ id \notin Range(readIndex(idxEntry))
    /\ srecords[id] = NoRecord /\ id \notin Range(readIndex(sidxEntry))

\* 'CR_' + Date.now() + '_' + four random characters: a millisecond clock
\* and a random suffix, taken to differ from every id the store holds, in a
\* Record or in the Index.  The ids are opaque to the store, so the new one
\* is the first of those nothing names
Unused(id) == Free(id) /\ \A j \in Ids : j < id => ~Free(j)

\* save resumes when the digest is there and runs to its end without
\* suspending again.  The program draws the id before the await and nothing
\* reads it before the Record is built, so it is drawn here
saveResume(c, id, fail) ==
    /\ calls[c].pc = "digesting"
    /\ Unused(id)
    /\ LET out == saveAfterDigest(records, idxEntry, indexOnResume(c),
                                  id, calls[c].template,
                                  calls[c].blob, fail)
           alone == saveAfterDigest(srecords, sidxEntry, readIndex(sidxEntry),
                                    id, calls[c].template,
                                    calls[c].blob, fail)
       IN /\ fail # "none" => out.result.kind = "rejected"
          /\ records' = out.records
          /\ idxEntry' = out.idxEntry
          /\ lastSave' = [kind |-> out.result.kind, id |-> out.result.id,
                          overlapped |-> calls[c].overlapped]
          /\ srecords' = alone.records
          /\ sidxEntry' = alone.idxEntry
    /\ calls' = [calls EXCEPT ![c] = Idle]
    /\ UNCHANGED <<lvars, dvars, ovars>>

\* mutant of Without: the filter keeps the id and drops the others
WithoutOthers(index, id) == SelectSeq(index, LAMBDA x : x = id)

\* readIndex().filter(x => x !== id)
Without(index, id) == SelectSeq(index, LAMBDA x : x # id)

\* deleteRecord(id): removeItem of the Record, then writeIndex of the
\* filtered Index; fail is "index" when the setItem of writeIndex throws
deleteRecord(id, fail) ==
    /\ records' = [records EXCEPT ![id] = NoRecord]
    /\ idxEntry' = IF fail = "index" THEN idxEntry
                   ELSE writeIndex(Without(readIndex(idxEntry), id))
    /\ srecords' = [srecords EXCEPT ![id] = NoRecord]
    /\ sidxEntry' = IF fail = "index" THEN sidxEntry
                    ELSE writeIndex(Without(readIndex(sidxEntry), id))
    /\ UNCHANGED <<calls, lastSave, lvars, dvars, ovars>>

\* mutant of clearAll: only the key of the Index is removed
clearAllIndexOnly ==
    /\ idxEntry' = NoEntry
    /\ sidxEntry' = NoEntry
    /\ UNCHANGED <<records, srecords, calls, lastSave, lvars, dvars, ovars>>

\* clearAll(): removeItem of the Record of every id of the Index read, then
\* removeItem of the Index
clearAll ==
    /\ records' = [i \in Ids |-> IF i \in Range(readIndex(idxEntry))
                                  THEN NoRecord ELSE records[i]]
    /\ idxEntry' = NoEntry
    /\ srecords' = [i \in Ids |-> IF i \in Range(readIndex(sidxEntry))
                                   THEN NoRecord ELSE srecords[i]]
    /\ sidxEntry' = NoEntry
    /\ UNCHANGED <<calls, lastSave, lvars, dvars, ovars>>

\* an out-of-band write (another tab, a write cut short) leaves under the
\* key of a stored Record a string that does not parse
corruptRecord(id) ==
    /\ records[id] \notin {NoRecord, CorruptRecord}
    /\ records' = [records EXCEPT ![id] = CorruptRecord]
    /\ srecords' = [srecords EXCEPT ![id] = CorruptRecord]
    /\ UNCHANGED <<idxEntry, sidxEntry, calls, lastSave, lvars, dvars, ovars>>

\* the same under the key of the Index
corruptIndex ==
    /\ idxEntry.present /\ idxEntry.parses
    /\ idxEntry' = CorruptEntry
    /\ sidxEntry' = CorruptEntry
    /\ UNCHANGED <<records, srecords, calls, lastSave, lvars, dvars, ovars>>

\* mutant of loadAllCall: an Index that does not parse is reset in storage
loadAllCallResetting ==
    /\ loaded' = loadAllResult(records, idxEntry)
    /\ idxEntry' = IF idxEntry.parses THEN idxEntry ELSE writeIndex(<<>>)
    /\ UNCHANGED <<records, calls, lastSave, srecords, sidxEntry, rebuilt,
                   lvars, dvars, kvars, bvars, mvars>>

\* loadAll()
loadAllCall ==
    /\ loaded' = loadAllResult(records, idxEntry)
    /\ UNCHANGED <<rebuilt, lvars, svars, dvars, kvars, bvars, mvars>>

\* rebuildPdf(record) of a Record read from storage
rebuildPdfCall(id) ==
    /\ records[id] \notin {NoRecord, CorruptRecord}
    /\ rebuilt' = rebuildPdf(records[id])
    /\ UNCHANGED <<loaded, lvars, svars, dvars, kvars, bvars, mvars>>

StoreNext ==
    \/ \E c \in Callers, b \in Blobs : saveCall(c, b)
    \/ \E c \in Callers, i \in Ids : saveResume(c, i, "none")
    \/ \E i \in Ids : deleteRecord(i, "none")
    \/ clearAll

\* the store when localStorage.setItem may throw (quota exceeded); one call
\* site, so that every save runs alone
StoreFailNext ==
    \/ \E b \in Blobs : saveCall("form", b)
    \/ \E i \in Ids, fail \in {"none", "record", "index"} :
          saveResume("form", i, fail)
    \/ \E i \in Ids, fail \in {"none", "index"} : deleteRecord(i, fail)
    \/ clearAll

\* the store whose stored strings out-of-band writes may damage, with its
\* readers; one call site
StoreCorruptNext ==
    \/ \E b \in {x \in Blobs : x.len > 0} : saveCall("form", b)
    \/ \E i \in Ids : saveResume("form", i, "none")
    \/ \E i \in Ids : deleteRecord(i, "none")
    \/ clearAll
    \/ \E i \in Ids : corruptRecord(i)
    \/ corruptIndex
    \/ loadAllCall

\* a Blockchain just constructed at time 0 and an empty localStorage
ReadersInit ==
    /\ chain = <<Block(BlockData(0, 0, EmptyHash, <<>>))>>
    /\ cand = NoBlock
    /\ lpc = "idle"
    /\ mdiff = 0
    /\ created = "none"
    /\ returned = NoBlock
    /\ validity = NoVerdict
    /\ tampered = <<>>
    /\ records = [i \in Ids |-> NoRecord]
    /\ idxEntry = NoEntry
    /\ calls = [c \in Callers |-> Idle]
    /\ lastSave = NoSave
    /\ srecords = [i \in Ids |-> NoRecord]
    /\ sidxEntry = NoEntry
    /\ txdata = <<>>
    /\ txhash = <<>>
    /\ loaded = NoRead
    /\ rebuilt = NoPdf
    /\ storageType = ""
    /\ lsItems = <<>>
    /\ cache = <<>>
    /\ saved = <<>>
    /\ kret = <<>>
    /\ suspiciousActivities = <<>>
    /\ clock = 0
    /\ bfret = <<>>
    /\ logBuffer = <<>>
    /\ logFile = <<>>
    /\ flushes = <<>>
    /\ logged = 0

\* nothing has been done with the Content Store
StoreUntouched ==
    /\ \A i \in Ids : records[i] = NoRecord
    /\ idxEntry = NoEntry
    /\ InFlight = {}
    /\ lastSave = NoSave
    /\ loaded = NoRead
    /\ rebuilt = NoPdf

\* nothing has been done with the Ledger
LedgerUntouched ==
    /\ Len(chain) = 1
    /\ lpc = "idle"
    /\ created = "none"
    /\ tampered = <<>>
    /\ validity = NoVerdict

\* the readers on what they read.  The Ledger and the Content Store share no
\* state, so a behaviour works on one of them: blocks are mined at time 0
\* with difficulty 1, one field of a block may be written out of band, and
\* the chain is validated; or blobs are saved, Records and the Index are
\* damaged, and the store is read
ReadersNext ==
    \/ StoreUntouched /\ \E txs \in TxLists : createBlockBegin(txs, 0, 1)
    \/ StoreUntouched /\ mineStep
    \/ StoreUntouched /\ createBlockEnd
    \/ StoreUntouched
          /\ \E i \in 0..(MaxChain - 1), f \in BlockFieldNames :
                \E v \in TamperValues(chain[IF i < Len(chain) THEN i + 1 ELSE 1],
                                      f) :
                   tamper(i, f, v)
    \/ StoreUntouched /\ isChainValidCall
    \/ LedgerUntouched
          /\ \E b \in {x \in Blobs : x.len > 0} : saveCall("form", b)
    \/ LedgerUntouched /\ \E i \in Ids : saveResume("form", i, "none")
    \/ LedgerUntouched /\ \E i \in Ids : corruptRecord(i)
    \/ LedgerUntouched /\ corruptIndex
    \/ LedgerUntouched /\ loadAllCall
    \/ LedgerUntouched /\ \E i \in Ids : rebuildPdfCall(i)

\* ---------------------------------------------------------- Digest actions
Txs == {1, 2}

\* two Transactions with an empty data object; no Blockchain is constructed
\* and localStorage is empty
DigestInit ==
    /\ txdata = [t \in Txs |-> Obj(<<>>)]
    /\ txhash = [t \in Txs |-> NoDigest]
    /\ chain = <<>>
    /\ cand = NoBlock
    /\ lpc = "idle"
    /\ mdiff = 0
    /\ created = "none"
    /\ returned = NoBlock
    /\ validity = NoVerdict
    /\ tampered = <<>>
    /\ records = <<>>
    /\ idxEntry = NoEntry
    /\ calls = <<>>
    /\ lastSave = NoSave
    /\ srecords = <<>>
    /\ sidxEntry = NoEntry
    /\ loaded = <<>>
    /\ rebuilt = <<>>
    /\ storageType = ""
    /\ lsItems = <<>>
    /\ cache = <<>>
    /\ saved = <<>>
    /\ kret = <<>>
    /\ suspiciousActivities = <<>>
    /\ clock = 0
    /\ bfret = <<>>
    /\ logBuffer = <<>>
    /\ logFile = <<>>
    /\ flushes = <<>>
    /\ logged = 0

\* the caller builds the payload: transaction.data[key] = value; a digest
\* taken of the earlier payload is no longer that of the Transaction
setData(t, key, value) ==
    /\ txdata' = [txdata EXCEPT ![t] = setKey(@, key, value)]
    /\ txhash' = [txhash EXCEPT ![t] = NoDigest]
    /\ UNCHANGED <<lvars, svars, ovars>>

\* transaction.calculateHash()
calculateHashCall(t) ==
    /\ txhash' = [txhash EXCEPT ![t] = TransactionCalculateHash(txdata[t])]
    /\ UNCHANGED <<txdata, lvars, svars, ovars>>

DigestNext ==
    \/ \E t \in Txs, key \in Keys, value \in DataValues : setData(t, key, value)
    \/ \E t \in Txs : calculateHashCall(t)

\* ---------------------------------------------------------------- DataStore
\* new DataStore(storageType): 'localStorage' by default, 'memory' in the
\* tests, and any other string a caller passes
StorageTypes == {"localStorage", "memory", "sessionStorage"}

\* collection names and ids, as strings of characters
Collections == {<<"a">>, <<"a", "_", "b">>}
ItemIds == {<<"1">>, <<"2">>}

\* this.prefix and the key `${this.prefix}${collection}_${id}`
prefix == <<"s", "c", "_">>
KeyOf(collection, id) == prefix \o collection \o <<"_">> \o id
AllKeys == {KeyOf(c, i) : c \in Collections, i \in ItemIds}

\* String.prototype.startsWith
startsWith(str, pat) ==
    Len(str) >= Len(pat) /\ SubSeq(str, 1, Len(pat)) = pat

\* the data a caller saves: an object with one numeric top-level field
Items == {Obj(<<[key |-> "a", value |-> Num(n)]>>) : n \in Scalars}

\* the filters a caller queries with: {} and { a: 1 }
Filters == {Obj(<<>>), Obj(<<[key |-> "a", value |-> Num(1)]>>)}

\* null, and the absence of a stored string
Null == [kind |-> "null", num |-> 0, entries |-> <<>>]
NoItem == <<>>

\* { data, timestamp, version: 1 }; the timestamp is the same in every save
Envelope(data) ==
    Obj(<<[key |-> "data", value |-> data],
          [key |-> "timestamp", value |-> Num(0)],
          [key |-> "version", value |-> Num(1)]>>)

\* JSON.stringify of the envelope, and JSON.parse(serialized).data
serialize(data) == stringify(Envelope(data))
parseData(serialized) ==
    Get(CHOOSE v \in {Envelope(d) : d \in Items} : stringify(v) = serialized,
        "data")

\* the storage a DataStore of this storageType writes to and reads from:
\* localStorage, its own Map, or none
Storing == storageType \in {"localStorage", "memory"}
Backing == IF storageType = "localStorage" THEN lsItems ELSE cache

\* DataStore.matchesFilter: data[key] !== value for no entry of the filter
matchesFilter(data, filter) ==
    \A k \in 1..Len(filter.entries) :
        /\ filter.entries[k].key \in KeysOf(data)
        /\ Get(data, filter.entries[k].key) = filter.entries[k].value

\* the keys DataStore.query(collection, filter) pushes the data of
queryKeys(collection, filter) ==
    IF Storing
    THEN {key \in AllKeys :
             /\ Backing[key] # NoItem
             /\ startsWith(key, prefix \o collection \o <<"_">>)
             /\ matchesFilter(parseData(Backing[key]), filter)}
    ELSE {}

\* how many times each item is in the array query returns; the order of the
\* array is the order of the storage's keys, which callers do not rely on
Count(keys, item, store) ==
    Cardinality({key \in keys : parseData(store[key]) = item})
query(collection, filter) ==
    [item \in Items |-> Count(queryKeys(collection, filter), item, Backing)]

\* the result of the last call on the DataStore
NoCall == [op |-> "none", collection |-> <<>>, id |-> <<>>,
           filter |-> Obj(<<>>), ret |-> Null, ok |-> FALSE,
           items |-> [item \in Items |-> 0]]

\* a DataStore just constructed, with an empty localStorage
DataStoreInit ==
    /\ storageType \in StorageTypes
    /\ lsItems = [key \in AllKeys |-> NoItem]
    /\ cache = [key \in AllKeys |-> NoItem]
    /\ saved = [c \in Collections, i \in ItemIds |-> Null]
    /\ kret = NoCall
    /\ chain = <<>>
    /\ cand = NoBlock
    /\ lpc = "idle"
    /\ mdiff = 0
    /\ created = "none"
    /\ returned = NoBlock
    /\ validity = NoVerdict
    /\ tampered = <<>>
    /\ records = <<>>
    /\ idxEntry = NoEntry
    /\ calls = <<>>
    /\ lastSave = NoSave
    /\ srecords = <<>>
    /\ sidxEntry = NoEntry
    /\ txdata = <<>>
    /\ txhash = <<>>
    /\ loaded = NoRead
    /\ rebuilt = NoPdf
    /\ suspiciousActivities = <<>>
    /\ clock = 0
    /\ bfret = <<>>
    /\ logBuffer = <<>>
    /\ logFile = <<>>
    /\ flushes = <<>>
    /\ logged = 0

\* save(collection, id, data); fail: localStorage.setItem throws (quota).
\* saved keeps, per collection and id, what the last save that returned true
\* was given, until a delete
DataStoreSave(collection, id, data, fail) ==
    /\ fail => storageType = "localStorage"
    /\ lsItems' = IF storageType = "localStorage" /\ ~fail
                  THEN [lsItems EXCEPT ![KeyOf(collection, id)] = serialize(data)]
                  ELSE lsItems
    /\ cache' = IF storageType = "memory"
                THEN [cache EXCEPT ![KeyOf(collection, id)] = serialize(data)]
                ELSE cache
    /\ saved' = IF fail THEN saved
                ELSE [saved EXCEPT ![collection, id] = data]
    /\ kret' = [NoCall EXCEPT !.op = "save", !.collection = collection,
                              !.id = id, !.ok = ~fail]
    /\ UNCHANGED <<storageType, lvars, svars, dvars, rvars, bvars, mvars>>

\* load(collection, id)
DataStoreLoad(collection, id) ==
    /\ kret' = [NoCall EXCEPT
                   !.op = "load", !.collection = collection, !.id = id,
                   !.ret = IF Storing /\ Backing[KeyOf(collection, id)] # NoItem
                           THEN parseData(Backing[KeyOf(collection, id)])
                           ELSE Null]
    /\ UNCHANGED <<storageType, lsItems, cache, saved, lvars, svars, dvars,
                   rvars, bvars, mvars>>

\* delete(collection, id)
DataStoreDelete(collection, id) ==
    /\ lsItems' = IF storageType = "localStorage"
                  THEN [lsItems EXCEPT ![KeyOf(collection, id)] = NoItem]
                  ELSE lsItems
    /\ cache' = IF storageType = "memory"
                THEN [cache EXCEPT ![KeyOf(collection, id)] = NoItem]
                ELSE cache
    /\ saved' = [saved EXCEPT ![collection, id] = Null]
    /\ kret' = [NoCall EXCEPT !.op = "delete", !.collection = collection,
                              !.id = id, !.ok = TRUE]
    /\ UNCHANGED <<storageType, lvars, svars, dvars, rvars, bvars, mvars>>

\* query(collection, filter)
DataStoreQuery(collection, filter) ==
    /\ kret' = [NoCall EXCEPT !.op = "query", !.collection = collection,
                              !.filter = filter,
                              !.items = query(collection, filter)]
    /\ UNCHANGED <<storageType, lsItems, cache, saved, lvars, svars, dvars,
                   rvars, bvars, mvars>>

DataStoreNext ==
    \/ \E c \in Collections, i \in ItemIds, d \in Items, fail \in BOOLEAN :
          DataStoreSave(c, i, d, fail)
    \/ \E c \in Collections, i \in ItemIds : DataStoreLoad(c, i)
    \/ \E c \in Collections, i \in ItemIds : DataStoreDelete(c, i)
    \/ \E c \in Collections, f \in Filters : DataStoreQuery(c, f)

\* ---------------------------------------------------------- SecurityManager
\* this.maxLoginAttempts and this.lockoutDuration (15 minutes, in ms)
maxLoginAttempts == 5
lockoutDuration == 900000

\* the identifiers logins are attempted for
Identifiers == {"alice", "bob"}

\* the times that pass between two calls that are not in the same
\* millisecond: a lockoutDuration less one millisecond, exactly, and plus one
Delays == {lockoutDuration - 1, lockoutDuration, lockoutDuration + 1}

\* Date.now() when the SecurityManager is constructed: later than
\* lockoutDuration after the epoch
StartClock == lockoutDuration + 1
LastClock == StartClock + MaxDelays * (lockoutDuration + 1)

\* suspiciousActivities.get(identifier) || { count: 0, lastAttempt: 0 }
NoAttempts == [present |-> FALSE, count |-> 0, lastAttempt |-> 0]

\* checkBruteForce throws: the identifier is locked
Locked(attempts, now) ==
    /\ attempts.count >= maxLoginAttempts
    /\ now - attempts.lastAttempt < lockoutDuration

\* checkBruteForce, when it returns: the attempts object, its count set to 0
\* if more than lockoutDuration has passed since lastAttempt.  The object is
\* the one the Map holds, if it holds one
checkBruteForce(attempts, now) ==
    IF now - attempts.lastAttempt > lockoutDuration
    THEN [attempts EXCEPT !.count = 0]
    ELSE attempts

NoCheck == [op |-> "none", identifier |-> "", kind |-> "none", count |-> 0]

\* a SecurityManager just constructed
SecurityInit ==
    /\ suspiciousActivities = [id \in Identifiers |-> NoAttempts]
    /\ clock = StartClock
    /\ bfret = NoCheck
    /\ chain = <<>>
    /\ cand = NoBlock
    /\ lpc = "idle"
    /\ mdiff = 0
    /\ created = "none"
    /\ returned = NoBlock
    /\ validity = NoVerdict
    /\ tampered = <<>>
    /\ records = <<>>
    /\ idxEntry = NoEntry
    /\ calls = <<>>
    /\ lastSave = NoSave
    /\ srecords = <<>>
    /\ sidxEntry = NoEntry
    /\ txdata = <<>>
    /\ txhash = <<>>
    /\ loaded = NoRead
    /\ rebuilt = NoPdf
    /\ storageType = ""
    /\ lsItems = <<>>
    /\ cache = <<>>
    /\ saved = <<>>
    /\ kret = <<>>
    /\ logBuffer = <<>>
    /\ logFile = <<>>
    /\ flushes = <<>>
    /\ logged = 0

\* time passes between two calls
tick(d) ==
    /\ clock + d <= LastClock
    /\ clock' = clock + d
    /\ UNCHANGED <<suspiciousActivities, bfret, lvars, svars, dvars, rvars,
                   kvars, mvars>>

\* checkBruteForce(identifier)
checkBruteForceCall(identifier) ==
    LET attempts == suspiciousActivities[identifier]
    IN /\ IF Locked(attempts, clock)
          THEN /\ bfret' = [op |-> "check", identifier |-> identifier,
                            kind |-> "locked", count |-> attempts.count]
               /\ UNCHANGED suspiciousActivities
          ELSE /\ bfret' = [op |-> "check", identifier |-> identifier,
                            kind |-> "ok",
                            count |-> checkBruteForce(attempts, clock).count]
               /\ suspiciousActivities' =
                     IF attempts.present
                     THEN [suspiciousActivities EXCEPT
                              ![identifier] = checkBruteForce(attempts, clock)]
                     ELSE suspiciousActivities
       /\ UNCHANGED <<clock, lvars, svars, dvars, rvars, kvars, mvars>>

\* recordFailedAttempt(identifier): checkBruteForce, which may throw, then
\* count++, lastAttempt = Date.now() and the Map set
recordFailedAttempt(identifier) ==
    LET attempts == suspiciousActivities[identifier]
        checked == checkBruteForce(attempts, clock)
    IN /\ IF Locked(attempts, clock)
          THEN /\ bfret' = [op |-> "record", identifier |-> identifier,
                            kind |-> "locked", count |-> attempts.count]
               /\ UNCHANGED suspiciousActivities
          ELSE /\ bfret' = [op |-> "record", identifier |-> identifier,
                            kind |-> "ok", count |-> checked.count + 1]
               /\ suspiciousActivities' =
                     [suspiciousActivities EXCEPT
                         ![identifier] = [present |-> TRUE,
                                          count |-> checked.count + 1,
                                          lastAttempt |-> clock]]
       /\ UNCHANGED <<clock, lvars, svars, dvars, rvars, kvars, mvars>>

\* resetFailedAttempts(identifier): after a login that succeeded
resetFailedAttempts(identifier) ==
    /\ suspiciousActivities[identifier].present
    /\ suspiciousActivities' =
          [suspiciousActivities EXCEPT ![identifier] = NoAttempts]
    /\ bfret' = [op |-> "reset", identifier |-> identifier, kind |-> "ok",
                 count |-> 0]
    /\ UNCHANGED <<clock, lvars, svars, dvars, rvars, kvars, mvars>>

SecurityNext ==
    \/ \E d \in Delays : tick(d)
    \/ \E id \in Identifiers : checkBruteForceCall(id)
    \/ \E id \in Identifiers : recordFailedAttempt(id)
    \/ \E id \in Identifiers : resetFailedAttempts(id)

\* --------------------------------------------------------- MonitoringSystem
\* flushLogBuffer up to its await: nothing when the buffer is empty, else
\* the content is built from the buffer as it is and fs.appendFile is
\* started; flushes holds the contents of the appends not yet settled
startFlush(buffer, pending) ==
    IF buffer = <<>> THEN pending ELSE Append(pending, buffer)

\* a MonitoringSystem just constructed; the log entries are numbered in the
\* order in which they are passed to addToLogBuffer
MonitorInit ==
    /\ logBuffer = <<>>
    /\ logFile = <<>>
    /\ flushes = <<>>
    /\ logged = 0
    /\ chain = <<>>
    /\ cand = NoBlock
    /\ lpc = "idle"
    /\ mdiff = 0
    /\ created = "none"
    /\ returned = NoBlock
    /\ validity = NoVerdict
    /\ tampered = <<>>
    /\ records = <<>>
    /\ idxEntry = NoEntry
    /\ calls = <<>>
    /\ lastSave = NoSave
    /\ srecords = <<>>
    /\ sidxEntry = NoEntry
    /\ txdata = <<>>
    /\ txhash = <<>>
    /\ loaded = NoRead
    /\ rebuilt = NoPdf
    /\ storageType = ""
    /\ lsItems = <<>>
    /\ cache = <<>>
    /\ saved = <<>>
    /\ kret = <<>>
    /\ suspiciousActivities = <<>>
    /\ clock = 0
    /\ bfret = <<>>

\* addToLogBuffer(logEntry): push, and flushLogBuffer() when the buffer has
\* reached maxLogBuffer entries
addToLogBuffer ==
    /\ logged < MaxEntries
    /\ logged' = logged + 1
    /\ logBuffer' = Append(logBuffer, logged + 1)
    /\ flushes' = IF Len(logBuffer) + 1 >= maxLogBuffer
                  THEN startFlush(Append(logBuffer, logged + 1), flushes)
                  ELSE flushes
    /\ Len(flushes') <= MaxFlushes
    /\ UNCHANGED <<logFile, lvars, svars, dvars, rvars, kvars, bvars>>

\* flushLogBuffer(), called by the timer, up to its await
flushLogBuffer ==
    /\ logBuffer # <<>>
    /\ Len(flushes) < MaxFlushes
    /\ flushes' = startFlush(logBuffer, flushes)
    /\ UNCHANGED <<logBuffer, logFile, logged, lvars, svars, dvars, rvars,
                   kvars, bvars>>

\* the k-th pending fs.appendFile settles and its flushLogBuffer resumes:
\* when it succeeded the content is in the file and this.logBuffer = [];
\* when it failed the error is logged and the buffer is left
appendFileSettles(k, ok) ==
    /\ k \in 1..Len(flushes)
    /\ flushes' = [j \in 1..(Len(flushes) - 1) |->
                      IF j < k THEN flushes[j] ELSE flushes[j + 1]]
    /\ logFile' = IF ok THEN logFile \o flushes[k] ELSE logFile
    /\ logBuffer' = IF ok THEN <<>> ELSE logBuffer
    /\ UNCHANGED <<logged, lvars, svars, dvars, rvars, kvars, bvars>>

MonitorNext ==
    \/ addToLogBuffer
    \/ flushLogBuffer
    \/ \E k \in 1..MaxFlushes, ok \in BOOLEAN : appendFileSettles(k, ok)

\* ----------------------------------------------------------- specifications
\* the Ledger on its own, the Content Store left untouched
LedgerSpec == LedgerInit /\ [][LedgerNext]_vars

\* the digests of payloads on their own
DigestSpec == DigestInit /\ [][DigestNext]_vars

\* the Ledger with out-of-band writes of up to two fields of a block
LedgerTamperSpec == LedgerInit /\ [][LedgerTamperNext]_vars

\* the Ledger with Block.addTransaction called on Blocks of the chain
LedgerAddSpec == LedgerInit /\ [][LedgerAddNext]_vars

\* the readers of the Ledger and of the Content Store
ReadersSpec == ReadersInit /\ [][ReadersNext]_vars

\* a SecurityManager on its own
SecuritySpec == SecurityInit /\ [][SecurityNext]_vars

\* the log buffer of a MonitoringSystem on its own
MonitorSpec == MonitorInit /\ [][MonitorNext]_vars

\* a DataStore on its own
DataStoreSpec == DataStoreInit /\ [][DataStoreNext]_vars

\* the Content Store on its own
StoreSpec == StoreInit /\ [][StoreNext]_vars

\* the Content Store on a localStorage whose writes may fail
StoreFailSpec == StoreInit /\ [][StoreFailNext]_vars

\* the Content Store on a localStorage damaged by out-of-band writes
StoreCorruptSpec == StoreInit /\ [][StoreCorruptNext]_vars
\* ----------------------------------------------------- Content Store claims
\* the save of caller c completes in this step
SaveDone(c) == calls[c].pc = "digesting" /\ calls'[c].pc = "idle"

\* the ids of the Index whose persisted Record holds exactly the bytes of blob
Twins(blob) ==
    {i \in Range(readIndex(idxEntry)) :
        records[i] # NoRecord /\ records[i].pdfBase64 = btoa(BlobBytes(blob))}

\* C5 (as claimed): a save of a blob that is byte-identical to one already
\* saved returns the id of that Record and writes nothing: the Index and the
\* persisted Records are the same before and after
C5_IdenticalBlobDeduplicated ==
    [][\A c \in Callers :
          (SaveDone(c) /\ Twins(calls[c].blob) # {})
              => /\ lastSave'.kind = "dedup"
                 /\ lastSave'.id \in Twins(calls[c].blob)
                 /\ records' = records
                 /\ idxEntry' = idxEntry]_vars

\* C6 (as claimed): byte-identical content is never stored twice: no two
\* persisted Records hold the same bytes or carry the same contentDigest
C6_ContentStoredOnce ==
    \A i, j \in Ids :
        (i # j /\ records[i] # NoRecord /\ records[j] # NoRecord)
            => /\ records[i].sha256 # records[j].sha256
               /\ records[i].pdfBase64 # records[j].pdfBase64

\* C7: the Index never holds more than IndexCap ids
C7_IndexWithinCap == Len(readIndex(idxEntry)) <= IndexCap

\* a save has just pushed an id out of a full Index
C7_Witness ==
    /\ lastSave.kind = "saved"
    /\ Len(readIndex(idxEntry)) = IndexCap
    /\ readIndex(idxEntry)[1] = lastSave.id
    /\ \E i \in Ids : records[i] # NoRecord /\ i \notin Range(readIndex(idxEntry))

\* C8 (as claimed): when a save of a new blob finds the Index full, the id
\* at the end of the Index leaves the Index and its persisted Record is
\* removed from storage
C8_EvictionRemovesRecord ==
    [][\A c \in Callers :
          (/\ SaveDone(c)
           /\ lastSave'.kind = "saved"
           /\ Len(readIndex(idxEntry)) = IndexCap)
              => LET old == readIndex(idxEntry)
                     oldest == old[Len(old)]
                 IN /\ oldest \notin Range(readIndex(idxEntry'))
                    /\ records'[oldest] = NoRecord]_vars

\* C9: when every save has completed, the Records and the Index are those of
\* a store on which the same saves ran one after another, each alone, in the
\* order in which they completed
C9_SavesSerialize ==
    InFlight = {} => (records = srecords /\ idxEntry = sidxEntry)

\* two saves overlapped, both completed and the later one wrote its Record
C9_Witness ==
    /\ InFlight = {}
    /\ lastSave.kind = "saved"
    /\ lastSave.overlapped
    /\ readIndex(idxEntry)[1] = lastSave.id
    /\ \E i \in Ids : i # lastSave.id /\ records[i] # NoRecord

\* C10 (as claimed): a save whose storage write fails leaves the persisted
\* Records and the Index exactly as they were
C10_FailedSaveChangesNothing ==
    [][(\E c \in Callers : SaveDone(c) /\ lastSave'.kind = "rejected")
          => (records' = records /\ idxEntry' = idxEntry)]_vars

\* digestBytes(bytes): the digest of an ArrayBuffer that holds exactly bytes
digestBytes(bytes) ==
    sha256Hex([kind |-> "buffer", buf |-> bytes, off |-> 0, len |-> Len(bytes)])

\* the save of caller c completes in this step and writes a new Record
SaveStored(c) == SaveDone(c) /\ lastSave'.kind = "saved"

\* C12 (as claimed): the Record a save writes for blob B carries as sha256
\* the digest of exactly the bytes of B, the bytes its size counts and its
\* pdfBase64 decodes to, whether B is a whole buffer or a view
C12_DigestOfBlobBytes ==
    [][\A c \in Callers :
          SaveStored(c)
              => LET B == BlobBytes(calls[c].blob)
                     r == records'[lastSave'.id]
                 IN /\ r.size = Len(B)
                    /\ atob(r.pdfBase64) = B
                    /\ r.sha256 = digestBytes(B)]_vars

\* C13 (as claimed): rebuildPdf of the Record a save has written for blob B,
\* read back from storage, is a Blob of the bytes of B, never null
C13_RebuildReturnsBlob ==
    [][\A c \in Callers :
          SaveStored(c)
              => rebuildPdf(records'[lastSave'.id])
                     = [kind |-> "blob", bytes |-> BlobBytes(calls[c].blob)]]_vars

\* C17 (as claimed): a save given no blob or a blob of zero bytes returns the
\* no-blob result at once: it never goes on to digest the blob, and the step
\* that returns the result writes no Record and leaves the Index as it was
C17_EmptyBlobRejected ==
    [][/\ \A c \in Callers :
             calls'[c].pc = "digesting" => BlobBytes(calls'[c].blob) # <<>>
       /\ (lastSave'.kind = "null" /\ lastSave.kind # "null")
             => (records' = records /\ idxEntry' = idxEntry)]_vars

\* C18 (as claimed): whichever storage writes fail, every id of the Index
\* has a persisted Record
C18_IndexedIdsHaveRecords ==
    \A id \in Range(readIndex(idxEntry)) : records[id] # NoRecord

\* no Record and no Index entry of the store names the id
Absent(id) == records[id] = NoRecord /\ id \notin Range(readIndex(idxEntry))

\* C19: deleteRecord of an id the store does not hold leaves every persisted
\* Record and the Index as they were, so a second deleteRecord(id) changes
\* nothing after the first
C19_DeleteAbsentChangesNothing ==
    [][\A id \in Ids :
          (Absent(id) /\ deleteRecord(id, "none"))
              => /\ records' = records
                 /\ readIndex(idxEntry') = readIndex(idxEntry)
                 /\ Absent(id)']_vars

\* deleteRecord has run on a store that never held a Record: the Index entry
\* it wrote is there, empty
C19_Witness ==
    /\ lastSave = NoSave
    /\ idxEntry = writeIndex(<<>>)
    /\ \A id \in Ids : records[id] = NoRecord

\* the ids of the Records of a sequence
IdsOf(recs) == [k \in 1..Len(recs) |-> recs[k].id]

\* C20: loadAll returns the persisted Records of the ids of the Index, in
\* Index order, skipping the ids without a Record; a save that writes a new
\* Record puts it first and keeps the others in their order, and a
\* deleteRecord removes one Record and keeps the order of the rest
C20_LoadAllMostRecentFirst ==
    [][LET old == loadAll(records, idxEntry)
           new == loadAll(records', idxEntry')
       IN /\ IdsOf(old) = SelectSeq(readIndex(idxEntry),
                                    LAMBDA id : records[id] # NoRecord)
          /\ \A k \in 1..Len(old) : old[k] = records[old[k].id]
          /\ \A c \in Callers :
                SaveStored(c)
                    => /\ new[1] = records'[lastSave'.id]
                       /\ Tail(new) = SubSeq(old, 1, Len(new) - 1)
          /\ \A id \in Ids, fail \in {"none", "index"} :
                deleteRecord(id, fail)
                    => new = SelectSeq(old, LAMBDA r : r.id # id)]_vars

\* two Records saved one after the other are both in the Index, the later
\* one first
C20_Witness ==
    /\ lastSave.kind = "saved"
    /\ Len(loadAll(records, idxEntry)) = 2
    /\ loadAll(records, idxEntry)[1].id = lastSave.id
    /\ \E id \in Ids : records[id] # NoRecord
                          /\ id \notin Range(readIndex(idxEntry))

\* the Records loadAll can read: those of the ids of the Index whose stored
\* string is there and parses, in Index order
Readable(recs, entry) ==
    LET ids == SelectSeq(readIndex(entry),
                         LAMBDA id : recs[id] \notin {NoRecord, CorruptRecord})
    IN [k \in 1..Len(ids) |-> recs[ids[k]]]

\* C21 (as claimed): a loadAll() that meets an Index id whose stored Record
\* does not parse skips it and returns every readable Record, in Index order;
\* it does not fail
C21_CorruptRecordSkipped ==
    [][loaded' # loaded
          => /\ loaded'.kind = "ok"
             /\ loaded'.recs = Readable(records, idxEntry)]_vars

\* the stored hash of a Block is the hash recomputed from its fields
Intact(b) == ~calculateHashThrows(b) /\ ~hashInvalid(b)

\* C22 (as claimed): unless an out-of-band write intervenes, no step changes
\* the transactions of a Block that is already in the chain, and a Block whose
\* stored hash matched the recomputed one still matches it
C22_TransactionsImmutable ==
    [][tampered' = tampered
          => \A i \in 1..Len(chain) :
                /\ chain'[i].transactions = chain[i].transactions
                /\ Intact(chain[i]) => Intact(chain'[i])]_vars

\* the digest of Block b with nonce n in place of its own
DigestWithNonce(b, n) == calculateHash([b EXCEPT !.nonce = n])

\* C23: the nonce of the Block a createBlock returns is the smallest n >= 0
\* for which the digest of the Block with nonce n starts with d zero
\* characters, d being the difficulty it was mined with
C23_SmallestNonceWins ==
    [][createBlockEnd
          => /\ returned'.nonce >= 0
             /\ StartsWithZeros(DigestWithNonce(returned', returned'.nonce).hex,
                                returned'.difficulty)
             /\ \A n \in 0..(returned'.nonce - 1) :
                   ~StartsWithZeros(DigestWithNonce(returned', n).hex,
                                    returned'.difficulty)]_vars

C23_Witness ==
    /\ created = "ok"
    /\ returned.difficulty >= 1
    /\ returned.nonce >= 2
    /\ \A n \in 0..(returned.nonce - 1) :
          DigestWithNonce(returned, n).hex[1] # 0

\* C24: right after clearAll(), loadAll() returns the empty sequence, the
\* Index is empty and no id that was in the Index has a persisted Record
C24_ClearEmptiesStore ==
    [][clearAll
          => /\ loadAllResult(records', idxEntry') = [kind |-> "ok", recs |-> <<>>]
             /\ readIndex(idxEntry') = <<>>
             /\ \A id \in Range(readIndex(idxEntry)) : records'[id] = NoRecord]_vars

\* a store just cleared of an Index of two saved Records
C24_Witness ==
    /\ idxEntry = NoEntry
    /\ lastSave.kind = "saved"
    /\ \A id \in Ids : records[id] = NoRecord
    /\ lastSave.id >= 2

\* C25: a step of a reader (loadAll, rebuildPdf, isChainValid) leaves the
\* Records, the Index entry and the chain as they were, also when the Index
\* does not parse, a Record does not parse or a block is invalid
C25_ReadersNeverMutate ==
    [][(loadAllCall \/ isChainValidCall \/ \E id \in Ids : rebuildPdfCall(id))
          => UNCHANGED <<records, idxEntry, chain>>]_vars

\* loadAll has read an Index that does not parse
C25_WitnessIndex ==
    /\ idxEntry = CorruptEntry
    /\ loaded.kind = "ok"
    /\ \E id \in Ids : records[id] # NoRecord

\* isChainValid has found a block invalid, and the block is as it was written
C25_Witness ==
    /\ tampered # <<>>
    /\ validity.called /\ ~validity.valid
    /\ validity.firstInvalid = tampered[1][1]

\* C26 (as claimed): whatever the storageType, a load(collection, id) that
\* follows a save of that collection and id which returned true, with no
\* delete of it in between, returns what the save was given
C26_LoadReturnsSaved ==
    [][\A c \in Collections, i \in ItemIds :
          (DataStoreLoad(c, i) /\ saved[c, i] # Null)
             => kret'.ret = saved[c, i]]_vars

\* the items saved under a collection that a filter matches, counted
SavedUnder(collection, filter) ==
    [item \in Items |->
        Cardinality({i \in ItemIds : /\ saved[collection, i] = item
                                     /\ matchesFilter(item, filter)})]

\* C27 (as claimed): on a DataStore that stores (localStorage or memory),
\* query(collection, filter) returns exactly the items saved under that
\* collection which the filter matches, and none saved under another
C27_QueryReturnsCollection ==
    [][\A c \in Collections, f \in Filters :
          (DataStoreQuery(c, f) /\ Storing)
             => kret'.items = SavedUnder(c, f)]_vars

\* the save of caller c, which overlapped another, completes in this step;
\* the save that completed before it overlapped too, and the Record it
\* returned is indexed and holds exactly the bytes of c's blob
SecondOfOverlappingTwins(c) ==
    /\ SaveDone(c)
    /\ calls[c].overlapped
    /\ lastSave.overlapped
    /\ lastSave.kind \in {"saved", "dedup"}
    /\ lastSave.id \in Twins(calls[c].blob)

\* C28 (as claimed): of two overlapping saves of byte-identical blobs, the
\* one that completes second returns the id the first returned and creates
\* no Record
C28_OverlappingTwinsShareRecord ==
    [][\A c \in Callers :
          SecondOfOverlappingTwins(c)
              => /\ lastSave'.id = lastSave.id
                 /\ records' = records]_vars

\* maxLoginAttempts failures are recorded for the identifier and at least
\* lockoutDuration has passed since the last of them
LockoutOver(identifier) ==
    /\ suspiciousActivities[identifier].count >= maxLoginAttempts
    /\ clock - suspiciousActivities[identifier].lastAttempt >= lockoutDuration

\* C29 (as claimed): with maxLoginAttempts failures recorded, the identifier
\* is rejected while less than lockoutDuration has passed since the last
\* failure; at or after lockoutDuration it is accepted with its counter
\* restarted, so that a failure recorded then counts as the first
C29_LockoutThenRestart ==
    [][\A id \in Identifiers :
          /\ (checkBruteForceCall(id) \/ recordFailedAttempt(id))
                /\ suspiciousActivities[id].count >= maxLoginAttempts
                /\ ~LockoutOver(id)
                => (bfret'.kind = "locked" /\ UNCHANGED suspiciousActivities)
          /\ (checkBruteForceCall(id) /\ LockoutOver(id))
                => (bfret'.kind = "ok" /\ suspiciousActivities'[id].count = 0)
          /\ (recordFailedAttempt(id) /\ LockoutOver(id))
                => (bfret'.kind = "ok" /\ suspiciousActivities'[id].count = 1)]_vars

\* how many times entry e is in the sequence
Occurrences(e, seq) == Cardinality({k \in 1..Len(seq) : seq[k] = e})

\* entry e is in the content of an append that has not settled
Pending(e) == \E k \in 1..Len(flushes) : Occurrences(e, flushes[k]) >= 1

\* C30 (as claimed): every entry passed to addToLogBuffer is still in the
\* buffer, is being written or has been written to the file, and none is in
\* the file twice
C30_EntriesWrittenOnce ==
    \A e \in 1..logged :
        /\ Occurrences(e, logBuffer) >= 1 \/ Pending(e) \/ Occurrences(e, logFile) >= 1
        /\ Occurrences(e, logFile) <= 1
====
